---- MODULE Spec2Model ----
(***************************************************************************)
(* Kiosk photobooth: the CameraPage component (pages/CameraPage.tsx), the  *)
(* generation adapter (lib/gemini.ts) and the session state machine that   *)
(* sequences them (types.ts AppState; its transitions are given by the     *)
(* design document, section 4.5).                                          *)
(***************************************************************************)
EXTENDS Integers, Sequences, FiniteSets, TLC

\* ---------------------------------------------------------------- bounds
MaxSessions == 2      \* CameraPage instances (one per session) in a run
AutoResetTime == 2    \* PhotoboothSettings.autoResetTime, in seconds
MaxCandidates == 2    \* candidates in one service response
MaxParts == 2         \* parts in one candidate's content
MaxVideoDim == 8      \* largest videoWidth and videoHeight of a feed
MaxPending == 1       \* save requests of the admin page not yet answered

\* ------------------------------------------------------------- constants
CountdownFrom == 3
NoFrame == 0

AppState == {"LANDING", "THEMES", "CAMERA", "GENERATING", "RESULT", "GALLERY", "ADMIN"}
IdleStates == {"RESULT", "GALLERY", "ADMIN"}
Instances == 1..MaxSessions

VARIABLES
  appState,       \* the screen showing (AppState)
  session,        \* id of the active Session, 0 when there is none
  nextId,         \* number of Sessions (CameraPage mounts) created so far
  capturedImage,  \* the capturedImage prop: NoFrame or the captured frame
  inflight,       \* generation calls that have not resolved yet
  gallery,        \* registered GalleryItems
  idleTimer,      \* seconds left on the auto-reset timer, 0 when not armed
  elapsed,        \* seconds spent in the current idle state since it was entered
  dropped,        \* sessions whose call resolved with an image after they were discarded
  lastError,      \* classified error surfaced to the guest, "none" if none
  lastEvent,      \* kind of the last step: "navigation", "idleTimeout", "other"
  apiKey,         \* VITE_GEMINI_API_KEY is set
  track,          \* per CameraPage instance: state of its getUserMedia stream
  stream,         \* per instance: the React state `stream` ("null" or "set")
  countdown,      \* per instance: the React state `countdown` (0 is null)
  interval,       \* per instance: active setInterval timers it started
  cbLog,          \* per instance: callbacks its capture() invoked, in order
  cancelledAt,    \* per instance: countdown value when BACK cancelled it, 0 if not
  gpc,            \* generateAIImage call: "idle", "called", "awaiting", "returned"
  gNetOk,         \* the request of this call reached the service
  gResponse,      \* the response the service gave to this call
  gRequests,      \* requests this call has issued to the service
  gOutcome,       \* what the call returned or threw
  cpc,            \* capture's drawing: "idle", "ready", "drawn"
  orientation,    \* settings.orientation
  videoWidth,     \* video.videoWidth of the feed
  videoHeight,    \* video.videoHeight of the feed
  canvas,         \* canvas.width and canvas.height
  drawn,          \* the source rectangle passed to drawImage
  isAuthenticated, \* AdminPage state
  pin,            \* AdminPage state: the PIN typed so far
  localSettings,  \* AdminPage state: the settings being edited
  isUploading,    \* AdminPage state
  settings,       \* the process-wide PhotoboothSettings (the settings prop)
  conceptObjects, \* the Concept objects the concepts prop and localConcepts hold
  remote,         \* what the remote store holds
  pending,        \* save requests that are not answered yet
  upload,         \* the overlay upload under way, with what its closure holds
  adminEvent,     \* what the last step did to the AdminPage
  gasUrl,         \* AdminPage state: the Apps Script URL field
  storedUrl       \* localStorage item APPS_SCRIPT_BASE_URL

sessionVars == <<appState, session, nextId, capturedImage, inflight, gallery,
                 idleTimer, elapsed, dropped, lastError, lastEvent>>
cameraVars == <<track, stream, countdown, interval, cbLog, cancelledAt>>
genVars == <<gpc, gNetOk, gResponse, gRequests, gOutcome>>
cropVars == <<cpc, orientation, videoWidth, videoHeight, canvas, drawn>>
adminState == <<isAuthenticated, pin, localSettings, isUploading, settings,
                conceptObjects, remote, pending, upload>>
urlVars == <<gasUrl, storedUrl>>
adminVars == <<adminState, adminEvent, urlVars>>
vars == <<sessionVars, cameraVars, genVars, apiKey, cropVars, adminVars>>

\* ===================================================== lib/gemini.ts
\* A part of a candidate's content: "text" has no inlineData, "empty" has
\* inlineData whose data is the empty string, the others carry image data.
ImageData == {"imgA", "imgB"}
Parts == {"text", "empty"} \cup ImageData

SeqsUpTo(S, n) == UNION {[1..k -> S] : k \in 0..n}

\* A candidate; content may be missing (hasContent = FALSE).
Candidates ==
  {[hasContent |-> TRUE, parts |-> ps] : ps \in SeqsUpTo(Parts, MaxParts)}
    \cup {[hasContent |-> FALSE, parts |-> <<>>]}

\* response.candidates, in the order the service returned them
Responses == SeqsUpTo(Candidates, MaxCandidates)

NoOutcome == [kind |-> "none", value |-> "none"]
Image(data) == [kind |-> "image", value |-> data]
Throw(error) == [kind |-> "error", value |-> error]

\* part.inlineData?.data is truthy
HasInlineData(part) == part \in ImageData

\* the for loop over candidates[0].content.parts: the first part with data
RECURSIVE FirstInlineData(_)
FirstInlineData(parts) ==
  IF parts = <<>> THEN "none"
  ELSE IF HasInlineData(Head(parts)) THEN Head(parts)
  ELSE FirstInlineData(Tail(parts))

\* lines 40-49: what the function does with a response it received
SelectImage(candidates) ==
  IF Len(candidates) = 0 THEN Throw("NoImageData")
  ELSE IF ~candidates[1].hasContent THEN Throw("TypeError")
  ELSE IF FirstInlineData(candidates[1].parts) # "none"
       THEN Image(FirstInlineData(candidates[1].parts))
  ELSE Throw("NoImageData")

\* lines 9-18: requests sent by one entry into the try block
RequestsOnEntry(key) == IF key THEN 1 ELSE 0

\* a catch block that tries the call again
CatchBlockRetry(error) == [pc |-> "called", outcome |-> NoOutcome]

\* lines 50-53: the catch block logs and rethrows; the call is over
CatchBlock(error) == [pc |-> "returned", outcome |-> Throw(error)]

\* the whole call, as its caller sees it
generateAIImage(key, netOk, response) ==
  IF ~key THEN Throw("MissingKey")
  ELSE IF ~netOk THEN Throw("SdkError")
  ELSE SelectImage(response)

\* --- the call, step by step
GenStart ==
  /\ gpc = "idle"
  /\ gpc' = "called"
  /\ gRequests' = 0
  /\ gOutcome' = NoOutcome
  /\ UNCHANGED <<sessionVars, cameraVars, apiKey, cropVars, adminVars, gNetOk, gResponse>>

\* line 9-38: the key check, then the request is sent
GenIssue ==
  /\ gpc = "called"
  /\ gRequests' = gRequests + RequestsOnEntry(apiKey)
  /\ IF ~apiKey
       THEN /\ gpc' = CatchBlock("MissingKey").pc
            /\ gOutcome' = CatchBlock("MissingKey").outcome
       ELSE /\ gpc' = "awaiting"
            /\ gOutcome' = gOutcome
  /\ UNCHANGED <<sessionVars, cameraVars, apiKey, cropVars, adminVars, gNetOk, gResponse>>

\* line 18 resumes: the request rejected, or a response arrived
GenSettle ==
  /\ gpc = "awaiting"
  /\ \/ \* the request failed
        /\ gNetOk' = FALSE
        /\ gResponse' = <<>>
        /\ gpc' = CatchBlock("SdkError").pc
        /\ gOutcome' = CatchBlock("SdkError").outcome
     \/ \* the service answered
        /\ gNetOk' = TRUE
        /\ gResponse' \in Responses
        /\ IF SelectImage(gResponse').kind = "error"
             THEN /\ gpc' = CatchBlock(SelectImage(gResponse').value).pc
                  /\ gOutcome' = CatchBlock(SelectImage(gResponse').value).outcome
             ELSE /\ gpc' = "returned"
                  /\ gOutcome' = SelectImage(gResponse')
  /\ UNCHANGED <<sessionVars, cameraVars, apiKey, cropVars, adminVars, gRequests>>

\* the caller has taken the result; the adapter can be called again
GenDone ==
  /\ gpc = "returned"
  /\ gpc' = "idle"
  /\ gNetOk' = TRUE
  /\ gResponse' = <<>>
  /\ gRequests' = 0
  /\ gOutcome' = NoOutcome
  /\ UNCHANGED <<sessionVars, cameraVars, apiKey, cropVars, adminVars>>

\* what a generation call can resolve to: with the key, the request fails
\* (there is no response) or the service answers with any response; without
\* the key no request is made
OutcomesWithKey ==
  {generateAIImage(TRUE, TRUE, r) : r \in Responses}
    \cup {generateAIImage(TRUE, FALSE, <<>>)}
OutcomesWithoutKey ==
  {generateAIImage(FALSE, FALSE, <<>>)}

\* ================================================ pages/CameraPage.tsx
\* The CameraPage of session i is on screen.
Mounted(i) == appState = "CAMERA" /\ session = i

\* line 15: useState<MediaStream | null>(null).  The effect of line 24 runs
\* in the first render only (its dependencies are the target size), so the
\* cleanup closure of line 41 holds this value of `stream`.
StreamAtEffect == "null"

\* line 41: () => stream?.getTracks().forEach(track => track.stop())
EffectCleanup(closureStream, status) ==
  IF closureStream # "null" /\ status = "live" THEN "stopped" ELSE status

\* lines 101-110: the <video> is rendered only while no image is captured;
\* React sets a ref on mount and clears it on unmount.
VideoRefSet(i) == Mounted(i) /\ capturedImage = NoFrame
\* line 176
CanvasRefSet(i) == Mounted(i)

\* capture() without the guard on the refs (line 45)
captureWithoutRefs(videoRef, canvasRef, ctx) ==
  IF ctx THEN <<"onCapture", "onGenerate">> ELSE <<>>

\* capture() calling onGenerate before onCapture
captureGenerateFirst(videoRef, canvasRef, ctx) ==
  IF videoRef /\ canvasRef
    THEN IF ctx THEN <<"onGenerate", "onCapture">> ELSE <<>>
    ELSE <<>>

\* lines 44-76: the callbacks one capture() invokes, in order
capture(videoRef, canvasRef, ctx) ==
  IF videoRef /\ canvasRef
    THEN IF ctx THEN <<"onCapture", "onGenerate">> ELSE <<>>
    ELSE <<>>

\* an updater that captures one tick early
UpdaterEarly(prev) ==
  IF prev = 2
    THEN [clear |-> TRUE, capture |-> TRUE, next |-> 0]
    ELSE [clear |-> FALSE, capture |-> FALSE,
          next |-> IF prev # 0 THEN prev - 1 ELSE 0]

\* lines 81-88: the state updater the interval passes to setCountdown
Updater(prev) ==
  IF prev = 1
    THEN [clear |-> TRUE, capture |-> TRUE, next |-> 0]
    ELSE [clear |-> FALSE, capture |-> FALSE,
          next |-> IF prev # 0 THEN prev - 1 ELSE 0]

\* lines 101 and 136: the CAPTURE button is rendered
CaptureControl(i) == Mounted(i) /\ capturedImage = NoFrame /\ countdown[i] = 0

\* ------------------------------------------------- capture's cropping
\* line 18
isPortrait(o) == o = "portrait"
\* lines 19-20: the target size in pixels
targetWidth(o) == IF isPortrait(o) THEN 768 ELSE 1344
targetHeight(o) == IF isPortrait(o) THEN 1344 ELSE 768
\* line 21: the ratio width:height of the box the preview is shown in
aspectRatioClass(o) == IF isPortrait(o) THEN <<9, 16>> ELSE <<16, 9>>

RECURSIVE GCD(_, _)
GCD(a, b) == IF b = 0 THEN a ELSE GCD(b, a % b)

\* Source coordinates are fractions of a pixel.  They are kept exactly, as
\* integer multiples of 1/Scale pixel; Scale makes every quotient of lines
\* 60-66 a whole number of units for both orientations.
Scale ==
  LET g == GCD(targetWidth("portrait"), targetHeight("portrait"))
  IN  2 * (targetWidth("portrait") \div g) * (targetHeight("portrait") \div g)

NoRect == [sourceX |-> 0, sourceY |-> 0, sourceWidth |-> 0, sourceHeight |-> 0]
NoCanvas == [width |-> 0, height |-> 0]

\* a crop that keeps the left or the top edge of the feed
sourceRectFromOrigin(o, vw, vh) ==
  IF vw * targetHeight(o) > vh * targetWidth(o)
    THEN [sourceX |-> 0, sourceY |-> 0,
          sourceWidth |-> (vh * targetWidth(o) * Scale) \div targetHeight(o),
          sourceHeight |-> vh * Scale]
    ELSE [sourceX |-> 0, sourceY |-> 0,
          sourceWidth |-> vw * Scale,
          sourceHeight |-> (vw * targetHeight(o) * Scale) \div targetWidth(o)]

\* lines 53-66: the source rectangle of the centre crop, in units of 1/Scale
\* pixel.  videoRatio > targetRatio is compared as vw * th > vh * tw.
sourceRect(o, vw, vh) ==
  IF vw * targetHeight(o) > vh * targetWidth(o)
    THEN LET sourceWidth == (vh * targetWidth(o) * Scale) \div targetHeight(o)
         IN  [sourceX |-> (vw * Scale - sourceWidth) \div 2,
              sourceY |-> 0,
              sourceWidth |-> sourceWidth,
              sourceHeight |-> vh * Scale]
    ELSE LET sourceHeight == (vw * targetHeight(o) * Scale) \div targetWidth(o)
         IN  [sourceX |-> 0,
              sourceY |-> (vh * Scale - sourceHeight) \div 2,
              sourceWidth |-> vw * Scale,
              sourceHeight |-> sourceHeight]

\* lines 50-51: the canvas takes the target size
canvasSize(o) == [width |-> targetWidth(o), height |-> targetHeight(o)]

\* a feed of some size is playing in the video element of a page mounted
\* in some orientation
CropStart ==
  /\ cpc = "idle"
  /\ \E o \in {"portrait", "landscape"}, vw \in 1..MaxVideoDim,
        vh \in 1..MaxVideoDim :
       /\ orientation' = o
       /\ videoWidth' = vw
       /\ videoHeight' = vh
  /\ cpc' = "ready"
  /\ UNCHANGED <<canvas, drawn>>
  /\ UNCHANGED <<sessionVars, cameraVars, genVars, apiKey, adminVars>>

\* lines 50-69: capture sizes the canvas and draws the cropped feed on it
CropCapture ==
  /\ cpc = "ready"
  /\ canvas' = canvasSize(orientation)
  /\ drawn' = sourceRect(orientation, videoWidth, videoHeight)
  /\ cpc' = "drawn"
  /\ UNCHANGED <<orientation, videoWidth, videoHeight>>
  /\ UNCHANGED <<sessionVars, cameraVars, genVars, apiKey, adminVars>>

\* the page is unmounted
CropDone ==
  /\ cpc = "drawn"
  /\ cpc' = "idle"
  /\ orientation' = "portrait"
  /\ videoWidth' = 0
  /\ videoHeight' = 0
  /\ canvas' = NoCanvas
  /\ drawn' = NoRect
  /\ UNCHANGED <<sessionVars, cameraVars, genVars, apiKey, adminVars>>

\* ============================================ the session state machine
\* the part of the orchestrator's state the CameraPage callbacks act on
Orch ==
  [appState |-> appState, session |-> session,
   capturedImage |-> capturedImage, inflight |-> inflight]

\* the onCapture prop: the session takes the frame
onCapture(o, image) ==
  IF o.appState = "CAMERA" THEN [o EXCEPT !.capturedImage = image] ELSE o

\* the onGenerate prop: CAMERA -> GENERATING, the adapter is invoked with the
\* captured frame and the id of the session that started the call
onGenerate(o) ==
  IF o.appState = "CAMERA"
    THEN [o EXCEPT !.appState = "GENERATING",
                   !.inflight = @ \cup {[sid |-> o.session,
                                         frame |-> o.capturedImage]}]
    ELSE o

RECURSIVE Deliver(_, _, _)
Deliver(cbs, o, image) ==
  IF cbs = <<>> THEN o
  ELSE Deliver(Tail(cbs),
               IF Head(cbs) = "onCapture" THEN onCapture(o, image)
               ELSE onGenerate(o),
               image)

\* an idle timer that is armed on entering any state
IdleTimerAlwaysArmed(state) == AutoResetTime

\* the idle timer on entering a state: armed in RESULT, GALLERY and ADMIN,
\* cancelled everywhere else
IdleTimerOnEnter(state) == IF state \in IdleStates THEN AutoResetTime ELSE 0

\* the completion handler without the session check
StillActiveUnchecked(call) == TRUE

\* a resolving call may commit its result only to the session that started it
StillActive(call) == appState = "GENERATING" /\ session = call.sid

\* ===================================================== pages/AdminPage.tsx
\* Values are kept to what the handlers distinguish.  Of PhotoboothSettings
\* the record keeps adminPin and overlayImage; eventName, eventDescription
\* and folderId are edited by handlers of the same shape as adminPin's
\* (lines 102-142).  The Concept list is one Concept with its name.
Pins == {"1234", "0000"}
PinEntries == Pins \cup {""}
NoOverlay == "none"
OverlayUrl == "url1"
NoConcepts == "none"
ConceptNames == {"cyber", "retro"}
DefaultSettings == [adminPin |-> "1234", overlayImage |-> NoOverlay]

\* The concepts prop and the localConcepts state hold the same Concept
\* objects: useState(concepts) keeps the array of the prop (line 22), the
\* edit handlers copy the array but not its elements (lines 209-217), and
\* onSaveConcepts hands the same objects back (line 224).
concepts == conceptObjects
localConcepts == conceptObjects

\* the request of handleSaveSettings: saveSettingsToGas(localSettings,
\* settings.adminPin), line 46
SaveSettingsRequest ==
  [kind |-> "saveSettings", pin |-> settings.adminPin,
   localSettings |-> localSettings, concepts |-> NoConcepts]

\* the request of SYNC ALL CONCEPTS: saveConceptsToGas(localConcepts,
\* settings.adminPin), line 223
SaveConceptsRequest ==
  [kind |-> "saveConcepts", pin |-> settings.adminPin,
   localSettings |-> DefaultSettings, concepts |-> localConcepts]

\* lines 164-173: the onload closure of the overlay input holds the settings
\* and the localSettings of the render in which the file was chosen
UploadClosure ==
  [phase |-> "reading", pin |-> settings.adminPin,
   localSettings |-> localSettings, orphan |-> FALSE]
NoUpload ==
  [phase |-> "none", pin |-> "", localSettings |-> DefaultSettings,
   orphan |-> FALSE]

AdminEvent(step, kind, presented, ok, alert) ==
  [step |-> step, kind |-> kind, pin |-> presented, ok |-> ok,
   alert |-> alert, previous |-> FALSE]
NoEvent == AdminEvent("none", "none", "", FALSE, "none")
\* a page was mounted; previous is isAuthenticated of the page before it
MountEvent(previous) == [NoEvent EXCEPT !.step = "mount", !.previous = previous]

\* the value of DEFAULT_GAS_URL and the values the URL field is given
DefaultGasUrl == "default-url"
GasUrls == {"", DefaultGasUrl, "other-url"}

\* line 31: localStorage.getItem('APPS_SCRIPT_BASE_URL') || DEFAULT_GAS_URL
savedUrl(stored) == IF stored = "" THEN DefaultGasUrl ELSE stored

\* a save that leaves the stored URL as it is
PersistedOnSaveKept(stored, url) == stored

\* line 45: localStorage.setItem('APPS_SCRIPT_BASE_URL', gasUrl)
PersistedOnSave(stored, url) == url

\* a login that accepts whatever was typed
PinMatchesAny(entered, adminPin) == TRUE

\* line 36
PinMatches(entered, adminPin) == entered = adminPin

\* the store is the authority on the PIN: a mutating call is carried out
\* when the store is reached and the PIN presented is the one it holds
StoreAccepts(reachable, presented) ==
  reachable /\ presented = remote.settings.adminPin

\* an AdminPage that starts from the state of the one before it
InitialAuthKept(previous) == previous

\* line 19: useState(false)
InitialAuth(previous) == FALSE

\* lines 19-26: a new AdminPage is mounted.  Until then the page state
\* variables hold what the page before it left behind.
MountAdmin ==
  /\ isAuthenticated' = InitialAuth(isAuthenticated)
  /\ pin' = ""
  /\ localSettings' = settings
  /\ isUploading' = FALSE
  /\ adminEvent' = MountEvent(isAuthenticated)
  /\ gasUrl' = savedUrl(storedUrl)
  /\ UNCHANGED <<settings, conceptObjects, remote, pending, upload, storedUrl>>

\* the AdminPage is unmounted: what its handlers started goes on, but the
\* state updates of an upload no longer reach a component
LeaveAdmin ==
  /\ upload' = IF upload.phase = "none" THEN upload
               ELSE [upload EXCEPT !.orphan = TRUE]
  /\ adminEvent' = NoEvent
  /\ UNCHANGED <<isAuthenticated, pin, localSettings, isUploading,
                 settings, conceptObjects, remote, pending>>
  /\ UNCHANGED urlVars

Init ==
  /\ appState = "LANDING"
  /\ session = 0
  /\ nextId = 0
  /\ capturedImage = NoFrame
  /\ inflight = {}
  /\ gallery = {}
  /\ idleTimer = 0
  /\ elapsed = 0
  /\ dropped = {}
  /\ lastError = "none"
  /\ lastEvent = "other"
  /\ apiKey \in BOOLEAN
  /\ track = [i \in Instances |-> "unrequested"]
  /\ stream = [i \in Instances |-> "null"]
  /\ countdown = [i \in Instances |-> 0]
  /\ interval = [i \in Instances |-> 0]
  /\ cbLog = [i \in Instances |-> <<>>]
  /\ cancelledAt = [i \in Instances |-> 0]
  /\ gpc = "idle"
  /\ gNetOk = TRUE
  /\ gResponse = <<>>
  /\ gRequests = 0
  /\ gOutcome = NoOutcome
  /\ cpc = "idle"
  /\ orientation = "portrait"
  /\ videoWidth = 0
  /\ videoHeight = 0
  /\ canvas = NoCanvas
  /\ drawn = NoRect
  /\ isAuthenticated = FALSE
  /\ pin = ""
  /\ localSettings = DefaultSettings
  /\ isUploading = FALSE
  /\ settings = DefaultSettings
  /\ conceptObjects = "cyber"
  /\ remote = [settings |-> DefaultSettings, concepts |-> "cyber"]
  /\ pending = {}
  /\ upload = NoUpload
  /\ adminEvent = NoEvent
  /\ storedUrl = DefaultGasUrl
  /\ gasUrl = savedUrl(storedUrl)

\* The CameraPage of the active session is unmounted: React runs the effect
\* cleanup (line 41) and clears the refs.  Nothing in the component clears
\* the interval of startCountdown.
LeaveCamera ==
  /\ track' = [track EXCEPT ![session] = EffectCleanup(StreamAtEffect, @)]
  /\ cancelledAt' = [cancelledAt EXCEPT ![session] = countdown[session]]
  /\ UNCHANGED <<stream, countdown, interval, cbLog>>

\* Transition into CAMERA: a Session is created and its CameraPage mounted;
\* the effect of line 24 calls setupCamera(), which awaits getUserMedia.
EnterCamera ==
  /\ nextId < MaxSessions
  /\ appState' = "CAMERA"
  /\ session' = nextId + 1
  /\ nextId' = nextId + 1
  /\ capturedImage' = NoFrame
  /\ idleTimer' = IdleTimerOnEnter("CAMERA")
  /\ elapsed' = 0
  /\ track' = [track EXCEPT ![nextId + 1] = "pending"]
  /\ UNCHANGED <<stream, countdown, interval, cbLog, cancelledAt>>

\* Return to LANDING: the Session is discarded, the camera page unmounted.
\* Outstanding generation calls cannot be aborted and stay in flight.
ToLanding ==
  /\ appState' = "LANDING"
  /\ session' = 0
  /\ capturedImage' = NoFrame
  /\ idleTimer' = IdleTimerOnEnter("LANDING")
  /\ elapsed' = 0
  /\ lastError' = "none"
  /\ IF appState = "CAMERA" THEN LeaveCamera ELSE UNCHANGED cameraVars
  /\ IF appState = "ADMIN" THEN LeaveAdmin ELSE UNCHANGED adminVars
  /\ UNCHANGED <<nextId, inflight, gallery, dropped>>

\* LANDING, start pressed
StartPressed ==
  /\ appState = "LANDING"
  /\ appState' = "THEMES"
  /\ idleTimer' = IdleTimerOnEnter("THEMES")
  /\ elapsed' = 0
  /\ lastEvent' = "navigation"
  /\ UNCHANGED <<session, nextId, capturedImage, inflight, gallery, dropped, lastError>>
  /\ UNCHANGED <<cameraVars, genVars, apiKey, cropVars, adminVars>>

\* LANDING, gallery pressed
GalleryPressed ==
  /\ appState = "LANDING"
  /\ appState' = "GALLERY"
  /\ idleTimer' = IdleTimerOnEnter("GALLERY")
  /\ elapsed' = 0
  /\ lastEvent' = "navigation"
  /\ UNCHANGED <<session, nextId, capturedImage, inflight, gallery, dropped, lastError>>
  /\ UNCHANGED <<cameraVars, genVars, apiKey, cropVars, adminVars>>

\* LANDING, admin pressed
AdminPressed ==
  /\ appState = "LANDING"
  /\ appState' = "ADMIN"
  /\ idleTimer' = IdleTimerOnEnter("ADMIN")
  /\ elapsed' = 0
  /\ lastEvent' = "navigation"
  /\ MountAdmin
  /\ UNCHANGED <<session, nextId, capturedImage, inflight, gallery, dropped, lastError>>
  /\ UNCHANGED <<cameraVars, genVars, apiKey, cropVars>>

\* THEMES, concept selected
ConceptSelected ==
  /\ appState = "THEMES"
  /\ EnterCamera
  /\ lastEvent' = "navigation"
  /\ UNCHANGED <<inflight, gallery, dropped, lastError>>
  /\ UNCHANGED <<genVars, apiKey, cropVars, adminVars>>

\* any state, explicit back/home (the onBack prop of the pages); the
\* AdminPage has its Back button on the PIN screen only (AdminPage.tsx:67)
BackPressed ==
  /\ appState # "LANDING"
  /\ appState = "ADMIN" => ~isAuthenticated
  /\ ToLanding
  /\ lastEvent' = "navigation"
  /\ UNCHANGED <<genVars, apiKey, cropVars>>

\* one second passes on the armed idle timer; at zero it fires
IdleSecond ==
  /\ idleTimer > 0
  /\ IF idleTimer = 1
       THEN /\ ToLanding
            /\ lastEvent' = "idleTimeout"
       ELSE /\ idleTimer' = idleTimer - 1
            /\ elapsed' = elapsed + 1
            /\ lastEvent' = "other"
            /\ UNCHANGED <<appState, session, nextId, capturedImage, inflight,
                           gallery, dropped, lastError>>
            /\ UNCHANGED cameraVars
            /\ adminEvent' = NoEvent
            /\ UNCHANGED <<adminState, urlVars>>
  /\ UNCHANGED <<genVars, apiKey, cropVars>>

\* GENERATING, the guest cancels back to CAMERA: the Session is discarded
\* and a new one created; the call stays in flight
CancelGenerating ==
  /\ appState = "GENERATING"
  /\ EnterCamera
  /\ lastEvent' = "navigation"
  /\ UNCHANGED <<inflight, gallery, dropped, lastError>>
  /\ UNCHANGED <<genVars, apiKey, cropVars, adminVars>>

\* an outstanding generation call resolves
GenerationResolves ==
  \E call \in inflight :
  \E out \in (IF apiKey THEN OutcomesWithKey ELSE OutcomesWithoutKey) :
    /\ inflight' = inflight \ {call}
    /\ lastEvent' = "other"
    /\ IF ~StillActive(call)
         THEN \* stale: the result is dropped
              /\ dropped' = IF out.kind = "image"
                              THEN dropped \cup {call.sid} ELSE dropped
              /\ UNCHANGED <<appState, session, nextId, capturedImage, gallery,
                             idleTimer, elapsed, lastError>>
              /\ UNCHANGED cameraVars
         ELSE IF out.kind = "image"
         THEN \* GENERATING -> RESULT, the Gallery Registrar is invoked
              /\ appState' = "RESULT"
              /\ gallery' = gallery \cup {[sid |-> call.sid, at |-> session,
                                           frame |-> call.frame]}
              /\ idleTimer' = IdleTimerOnEnter("RESULT")
              /\ elapsed' = 0
              /\ UNCHANGED <<session, nextId, capturedImage, dropped, lastError>>
              /\ UNCHANGED cameraVars
         ELSE \* GENERATING -> CAMERA (or THEMES), error surfaced, frame dropped
              /\ lastError' = out.value
              /\ gallery' = gallery
              /\ dropped' = dropped
              /\ \/ EnterCamera
                 \/ /\ appState' = "THEMES"
                    /\ session' = 0
                    /\ capturedImage' = NoFrame
                    /\ idleTimer' = IdleTimerOnEnter("THEMES")
                    /\ elapsed' = 0
                    /\ UNCHANGED nextId
                    /\ UNCHANGED cameraVars
    /\ UNCHANGED <<genVars, apiKey, cropVars, adminVars>>

\* lines 27-38: the getUserMedia promise of instance i settles
GetUserMediaSettles(i) ==
  /\ track[i] = "pending"
  /\ \E granted \in BOOLEAN :
       IF granted
         THEN /\ track' = [track EXCEPT ![i] = "live"]
              \* setStream on an unmounted component changes nothing
              /\ stream' = [stream EXCEPT ![i] = IF Mounted(i) THEN "set" ELSE @]
         ELSE /\ track' = [track EXCEPT ![i] = "failed"]
              /\ stream' = stream
  /\ lastEvent' = "other"
  /\ UNCHANGED <<appState, session, nextId, capturedImage, inflight, gallery,
                 idleTimer, elapsed, dropped, lastError>>
  /\ UNCHANGED <<countdown, interval, cbLog, cancelledAt>>
  /\ UNCHANGED <<genVars, apiKey, cropVars, adminVars>>

\* lines 78-90: the CAPTURE button is clicked
startCountdown(i) ==
  /\ CaptureControl(i)
  /\ countdown' = [countdown EXCEPT ![i] = CountdownFrom]
  /\ interval' = [interval EXCEPT ![i] = @ + 1]
  /\ lastEvent' = "other"
  /\ UNCHANGED <<appState, session, nextId, capturedImage, inflight, gallery,
                 idleTimer, elapsed, dropped, lastError>>
  /\ UNCHANGED <<track, stream, cbLog, cancelledAt>>
  /\ UNCHANGED <<genVars, apiKey, cropVars, adminVars>>

\* lines 80-89: the interval of the mounted page fires
IntervalTick(i) ==
  /\ interval[i] > 0
  /\ Mounted(i)
  /\ LET u == Updater(countdown[i])
         cbs == IF u.capture
                  THEN capture(VideoRefSet(i), CanvasRefSet(i), TRUE)
                  ELSE <<>>
         o == Deliver(cbs, Orch, i)
     IN /\ countdown' = [countdown EXCEPT ![i] = u.next]
        /\ interval' = [interval EXCEPT ![i] = IF u.clear THEN @ - 1 ELSE @]
        /\ cbLog' = [cbLog EXCEPT ![i] = @ \o cbs]
        /\ appState' = o.appState
        /\ session' = o.session
        /\ capturedImage' = o.capturedImage
        /\ inflight' = o.inflight
        /\ idleTimer' = IF o.appState # appState
                          THEN IdleTimerOnEnter(o.appState) ELSE idleTimer
        /\ elapsed' = IF o.appState # appState THEN 0 ELSE elapsed
        \* GENERATING replaces the camera page: it is unmounted
        /\ track' = IF o.appState # "CAMERA"
                      THEN [track EXCEPT ![i] = EffectCleanup(StreamAtEffect, @)]
                      ELSE track
  /\ lastEvent' = "other"
  /\ UNCHANGED <<nextId, gallery, dropped, lastError>>
  /\ UNCHANGED <<stream, cancelledAt>>
  /\ UNCHANGED <<genVars, apiKey, cropVars, adminVars>>

\* The interval of a page that is no longer mounted fires.  React may or may
\* not evaluate the updater of a state update on an unmounted component; when
\* it does, it passes the last rendered state and never commits the result.
IntervalTickUnmounted(i) ==
  /\ interval[i] > 0
  /\ ~Mounted(i)
  /\ \E evaluated \in BOOLEAN :
       LET u == Updater(countdown[i])
           cbs == IF evaluated /\ u.capture
                    THEN capture(VideoRefSet(i), CanvasRefSet(i), TRUE)
                    ELSE <<>>
           o == Deliver(cbs, Orch, i)
       IN /\ interval' = [interval EXCEPT ![i] = IF evaluated /\ u.clear THEN @ - 1 ELSE @]
          /\ cbLog' = [cbLog EXCEPT ![i] = @ \o cbs]
          /\ appState' = o.appState
          /\ session' = o.session
          /\ capturedImage' = o.capturedImage
          /\ inflight' = o.inflight
          /\ idleTimer' = IF o.appState # appState
                            THEN IdleTimerOnEnter(o.appState) ELSE idleTimer
          /\ elapsed' = IF o.appState # appState THEN 0 ELSE elapsed
          /\ track' = IF appState = "CAMERA" /\ o.appState # "CAMERA"
                        THEN [track EXCEPT ![session] = EffectCleanup(StreamAtEffect, @)]
                        ELSE track
  /\ lastEvent' = "other"
  /\ UNCHANGED <<nextId, gallery, dropped, lastError>>
  /\ UNCHANGED <<stream, countdown, cancelledAt>>
  /\ UNCHANGED <<genVars, apiKey, cropVars, adminVars>>

\* ------------------------------------------------ AdminPage handlers
\* what a step of the AdminPage leaves alone outside the page
AdminFrame ==
  /\ lastEvent' = "other"
  /\ UNCHANGED <<appState, session, nextId, capturedImage, inflight, gallery,
                 idleTimer, elapsed, dropped, lastError>>
  /\ UNCHANGED <<cameraVars, genVars, apiKey, cropVars>>

\* line 63: the PIN input changes
SetPin ==
  /\ appState = "ADMIN"
  /\ ~isAuthenticated
  /\ \E p \in PinEntries \ {pin} : pin' = p
  /\ adminEvent' = NoEvent
  /\ UNCHANGED <<isAuthenticated, localSettings, isUploading, settings,
                 conceptObjects, remote, pending, upload>>
  /\ UNCHANGED urlVars
  /\ AdminFrame

\* lines 35-42, from AUTHORIZE or the Enter key
handleLogin ==
  /\ appState = "ADMIN"
  /\ ~isAuthenticated
  /\ IF PinMatches(pin, settings.adminPin)
       THEN /\ isAuthenticated' = TRUE
            /\ pin' = pin
            /\ adminEvent' = AdminEvent("login", "none", pin, TRUE, "none")
       ELSE /\ isAuthenticated' = FALSE
            /\ pin' = ""
            /\ adminEvent' = AdminEvent("login", "none", pin, FALSE,
                                        "INVALID SECURITY PIN")
  /\ UNCHANGED <<localSettings, isUploading, settings, conceptObjects,
                 remote, pending, upload>>
  /\ UNCHANGED urlVars
  /\ AdminFrame

\* line 88: Disconnect
Disconnect ==
  /\ appState = "ADMIN"
  /\ isAuthenticated
  /\ isAuthenticated' = FALSE
  /\ adminEvent' = NoEvent
  /\ UNCHANGED <<pin, localSettings, isUploading, settings, conceptObjects,
                 remote, pending, upload>>
  /\ UNCHANGED urlVars
  /\ AdminFrame

\* line 142 (and 102, 112, 122): a settings field is edited
EditSettings ==
  /\ appState = "ADMIN"
  /\ isAuthenticated
  /\ \E v \in Pins \ {localSettings.adminPin} :
       localSettings' = [localSettings EXCEPT !.adminPin = v]
  /\ adminEvent' = NoEvent
  /\ UNCHANGED <<isAuthenticated, pin, isUploading, settings, conceptObjects,
                 remote, pending, upload>>
  /\ UNCHANGED urlVars
  /\ AdminFrame

\* lines 208-217 (and 199-203): a field of a concept is edited.  nc is a
\* copy of the array, nc[index] is the Concept object itself, which the
\* concepts prop holds too.
EditConcept ==
  /\ appState = "ADMIN"
  /\ isAuthenticated
  /\ \E v \in ConceptNames \ {conceptObjects} : conceptObjects' = v
  /\ adminEvent' = AdminEvent("edit", "concept", "", FALSE, "none")
  /\ UNCHANGED <<isAuthenticated, pin, localSettings, isUploading, settings,
                 remote, pending, upload>>
  /\ UNCHANGED urlVars
  /\ AdminFrame

\* line 132: the Apps Script URL field is edited
EditGasUrl ==
  /\ appState = "ADMIN"
  /\ isAuthenticated
  /\ \E v \in GasUrls \ {gasUrl} : gasUrl' = v
  /\ adminEvent' = AdminEvent("edit", "gasUrl", "", FALSE, "none")
  /\ UNCHANGED storedUrl
  /\ UNCHANGED adminState
  /\ AdminFrame

\* lines 44-46: SAVE SETTINGS stores the URL field and sends the request
handleSaveSettings ==
  /\ appState = "ADMIN"
  /\ isAuthenticated
  /\ Cardinality(pending) < MaxPending
  /\ SaveSettingsRequest \notin pending
  /\ pending' = pending \cup {SaveSettingsRequest}
  /\ adminEvent' = AdminEvent("sent", "saveSettings", settings.adminPin,
                              FALSE, "none")
  /\ UNCHANGED <<isAuthenticated, pin, localSettings, isUploading, settings,
                 conceptObjects, remote, upload>>
  /\ storedUrl' = PersistedOnSave(storedUrl, gasUrl)
  /\ UNCHANGED gasUrl
  /\ AdminFrame

\* lines 222-223: SYNC ALL CONCEPTS sends the request
SyncAllConcepts ==
  /\ appState = "ADMIN"
  /\ isAuthenticated
  /\ Cardinality(pending) < MaxPending
  /\ SaveConceptsRequest \notin pending
  /\ pending' = pending \cup {SaveConceptsRequest}
  /\ adminEvent' = AdminEvent("sent", "saveConcepts", settings.adminPin,
                              FALSE, "none")
  /\ UNCHANGED <<isAuthenticated, pin, localSettings, isUploading, settings,
                 conceptObjects, remote, upload>>
  /\ UNCHANGED urlVars
  /\ AdminFrame

\* lines 159-163 and 174: a file is chosen for the overlay and the reader
\* starts.  One upload is followed at a time.
ChooseOverlayFile ==
  /\ appState = "ADMIN"
  /\ isAuthenticated
  /\ ~isUploading
  /\ upload.phase = "none"
  /\ upload' = UploadClosure
  /\ isUploading' = TRUE
  /\ adminEvent' = NoEvent
  /\ UNCHANGED <<isAuthenticated, pin, localSettings, settings,
                 conceptObjects, remote, pending>>
  /\ UNCHANGED urlVars
  /\ AdminFrame

\* lines 164-165: the reader has loaded the file, onload sends the upload
ReaderLoaded ==
  /\ upload.phase = "reading"
  /\ upload' = [upload EXCEPT !.phase = "sent"]
  /\ adminEvent' = AdminEvent("sent", "uploadOverlay", upload.pin, FALSE, "none")
  /\ UNCHANGED <<isAuthenticated, pin, localSettings, isUploading, settings,
                 conceptObjects, remote, pending>>
  /\ UNCHANGED urlVars
  /\ AdminFrame

\* lines 162-174: reading the file fails.  The reader has an onload handler
\* only, so nothing of the page runs: this upload is over.
ReaderFails ==
  /\ upload.phase = "reading"
  /\ upload' = NoUpload
  /\ adminEvent' = AdminEvent("readFailed", "uploadOverlay", upload.pin,
                              FALSE, "none")
  /\ UNCHANGED <<isAuthenticated, pin, localSettings, isUploading, settings,
                 conceptObjects, remote, pending>>
  /\ UNCHANGED urlVars
  /\ AdminFrame

\* the store answers a save (or cannot be reached) and the handler that
\* awaits it goes on: lines 47-50 and 223-224
SaveResolves ==
  \E r \in pending, reachable \in BOOLEAN :
    LET ok == StoreAccepts(reachable, r.pin)
    IN  /\ pending' = pending \ {r}
        /\ IF r.kind = "saveSettings"
             THEN /\ remote' = IF ok THEN [remote EXCEPT !.settings = r.localSettings]
                                     ELSE remote
                  /\ settings' = IF ok THEN r.localSettings ELSE settings
                  /\ adminEvent' =
                       AdminEvent("resolved", r.kind, r.pin, ok,
                                  IF ok THEN "Settings saved and synced to cloud"
                                        ELSE "none")
             ELSE /\ remote' = IF ok THEN [remote EXCEPT !.concepts = r.concepts]
                                     ELSE remote
                  /\ settings' = settings
                  /\ adminEvent' =
                       AdminEvent("resolved", r.kind, r.pin, ok,
                                  IF ok THEN "Concepts updated on cloud"
                                        ELSE "none")
        /\ UNCHANGED <<isAuthenticated, pin, localSettings, isUploading,
                       conceptObjects, upload>>
        /\ UNCHANGED urlVars
        /\ AdminFrame

\* the store answers the upload (or cannot be reached): lines 165-172
UploadResolves ==
  \E reachable \in BOOLEAN :
    LET ok == StoreAccepts(reachable, upload.pin)
    IN  /\ upload.phase = "sent"
        /\ upload' = NoUpload
        /\ localSettings' =
             IF ok /\ ~upload.orphan
               THEN [upload.localSettings EXCEPT !.overlayImage = OverlayUrl]
               ELSE localSettings
        /\ isUploading' = IF upload.orphan THEN isUploading ELSE FALSE
        /\ adminEvent' =
             AdminEvent("resolved", "uploadOverlay", upload.pin, ok,
                        IF ok THEN "Overlay updated" ELSE "Upload error")
        /\ UNCHANGED <<isAuthenticated, pin, settings, conceptObjects, remote,
                       pending>>
        /\ UNCHANGED urlVars
        /\ AdminFrame

Next ==
  \/ StartPressed
  \/ GalleryPressed
  \/ AdminPressed
  \/ ConceptSelected
  \/ BackPressed
  \/ IdleSecond
  \/ CancelGenerating
  \/ GenerationResolves
  \/ \E i \in Instances : GetUserMediaSettles(i)
  \/ \E i \in Instances : startCountdown(i)
  \/ \E i \in Instances : IntervalTick(i)
  \/ \E i \in Instances : IntervalTickUnmounted(i)

Spec == Init /\ [][Next]_vars

NextGen == GenStart \/ GenIssue \/ GenSettle \/ GenDone

SpecGen == Init /\ [][NextGen]_vars

NextCrop == CropStart \/ CropCapture \/ CropDone

SpecCrop == Init /\ [][NextCrop]_vars

NextAdmin ==
  \/ AdminPressed
  \/ BackPressed
  \/ IdleSecond
  \/ SetPin
  \/ handleLogin
  \/ Disconnect
  \/ EditSettings
  \/ handleSaveSettings
  \/ SyncAllConcepts
  \/ ChooseOverlayFile
  \/ ReaderLoaded
  \/ ReaderFails
  \/ SaveResolves
  \/ UploadResolves

\* the admin page does not use the generation service
InitAdmin == Init /\ apiKey

SpecAdmin == InitAdmin /\ [][NextAdmin]_vars

\* the concepts tab of the admin page
NextConcepts ==
  \/ AdminPressed
  \/ BackPressed
  \/ IdleSecond
  \/ SetPin
  \/ handleLogin
  \/ Disconnect
  \/ EditConcept
  \/ SyncAllConcepts
  \/ SaveResolves

SpecConcepts == InitAdmin /\ [][NextConcepts]_vars

\* the Apps Script URL field and its stored copy
NextUrl ==
  \/ AdminPressed
  \/ BackPressed
  \/ IdleSecond
  \/ SetPin
  \/ handleLogin
  \/ Disconnect
  \/ EditGasUrl
  \/ handleSaveSettings
  \/ SaveResolves

SpecUrl == InitAdmin /\ [][NextUrl]_vars

TypeOK ==
  /\ appState \in AppState
  /\ session \in 0..MaxSessions
  /\ nextId \in 0..MaxSessions
  /\ capturedImage \in 0..MaxSessions
  /\ idleTimer \in 0..AutoResetTime
  /\ \A i \in Instances : countdown[i] \in 0..CountdownFrom

\* ================================================================ claims

\* C1: whenever the CAMERA screen has been left, every stream getUserMedia
\* granted to that screen has its tracks stopped: a stream is live only while
\* the CameraPage that opened it is mounted.
CameraReleasedOnExit ==
  \A i \in Instances : track[i] = "live" => Mounted(i)

\* C2: a generation call whose session was discarded before it resolved is
\* not applied to any session: the step that resolves it changes neither the
\* screen, nor the active session, nor its frame, nor the gallery; and every
\* GalleryItem was registered for the session that was active at that moment.
StaleResultRejected ==
  /\ [](\A g \in gallery : g.sid = g.at)
  /\ [][\A call \in inflight :
          (call \notin inflight' /\ call.sid # session)
            => /\ appState' = appState
               /\ session' = session
               /\ capturedImage' = capturedImage
               /\ gallery' = gallery]_vars

\* a discarded session's call has resolved with an image while another
\* session was in GENERATING
StaleResultDropped ==
  /\ dropped # {}
  /\ appState = "GENERATING"
  /\ gallery = {}

TimerReleasedOnExit ==
  \A i \in Instances : interval[i] > 0 => Mounted(i)

\* --- the generation adapter (specification SpecGen)
CandidateHasImage(c) ==
  c.hasContent /\ \E k \in 1..Len(c.parts) : HasInlineData(c.parts[k])

ImageBearing(response) ==
  {k \in 1..Len(response) : CandidateHasImage(response[k])}

FirstImageBearing(response) ==
  CHOOSE k \in ImageBearing(response) : \A j \in ImageBearing(response) : k <= j

\* the classified outcome a caller can read off what the call returned/threw
OutcomeKind(outcome) ==
  IF outcome.kind = "image" THEN "Image"
  ELSE IF outcome.value = "MissingKey" THEN "MissingCredential"
  ELSE IF outcome.value = "SdkError" THEN "ServiceUnreachable"
  ELSE IF outcome.value = "NoImageData" THEN "NoImageReturned"
  ELSE "Unclassified"

\* C5: when the service answered with candidates that all have content,
\* generate returns the image data of the first candidate, in list order,
\* that contains image data.
FirstImageCandidateReturned ==
  (/\ gpc = "returned" /\ apiKey /\ gNetOk
   /\ \A k \in 1..Len(gResponse) : gResponse[k].hasContent
   /\ ImageBearing(gResponse) # {})
    => gOutcome =
         Image(FirstInlineData(gResponse[FirstImageBearing(gResponse)].parts))

\* C6: every call ends in exactly one of Image, MissingCredential,
\* ServiceUnreachable, NoImageReturned: MissingCredential exactly when the
\* credential is absent, ServiceUnreachable exactly when the request failed,
\* NoImageReturned exactly when the response has no image-bearing candidate
\* (stated for responses whose candidates all have content).
ClassifiedOutcomes ==
  (gpc = "returned" /\ \A k \in 1..Len(gResponse) : gResponse[k].hasContent) =>
    LET kind == OutcomeKind(gOutcome) IN
    /\ kind \in {"Image", "MissingCredential", "ServiceUnreachable", "NoImageReturned"}
    /\ kind = "MissingCredential" <=> ~apiKey
    /\ kind = "ServiceUnreachable" <=> (apiKey /\ ~gNetOk)
    /\ kind = "NoImageReturned" <=>
         (apiKey /\ gNetOk /\ ImageBearing(gResponse) = {})
    /\ kind = "Image" <=> (apiKey /\ gNetOk /\ ImageBearing(gResponse) # {})

\* C7: one invocation of generate issues at most one request to the service,
\* and none when the credential is missing.
AtMostOneRequest ==
  /\ gRequests <= 1
  /\ ~apiKey => gRequests = 0

\* a call that failed after its one request, and was not retried
FailedAfterOneRequest ==
  /\ gpc = "returned"
  /\ gOutcome.kind = "error"
  /\ gRequests = 1

\* --- the session state machine
\* C8: in RESULT, GALLERY and ADMIN the idle timer is armed and shows
\* autoResetTime minus the seconds spent there, so the machine never stays a
\* full autoResetTime seconds; the timeout fires only there, on the last of
\* those seconds, moves to LANDING and leaves the timer disarmed; an explicit
\* navigation restarts the timer for the state entered; outside those three
\* states (CAMERA and GENERATING among them) the timer is cancelled.
IdleAutoReset ==
  /\ [](appState \in IdleStates =>
          elapsed < AutoResetTime /\ idleTimer = AutoResetTime - elapsed)
  /\ [](appState \notin IdleStates => idleTimer = 0)
  /\ [][lastEvent' = "idleTimeout" =>
          /\ appState \in IdleStates
          /\ elapsed = AutoResetTime - 1
          /\ appState' = "LANDING"
          /\ idleTimer' = 0]_vars
  /\ [][lastEvent' = "navigation" =>
          idleTimer' = (IF appState' \in IdleStates THEN AutoResetTime ELSE 0)]_vars

\* the idle timeout has just returned the kiosk to LANDING
IdleTimeoutFired ==
  /\ lastEvent = "idleTimeout"
  /\ appState = "LANDING"

\* C9: the machine is in one of the seven states; GENERATING is entered only
\* with a frame captured in the same session; capture() invokes onGenerate
\* only after onCapture, and every generation call carries such a frame.
StateDiscipline ==
  /\ appState \in AppState
  /\ appState = "GENERATING" => (session # 0 /\ capturedImage = session)
  /\ \A i \in Instances : cbLog[i] \in {<<>>, <<"onCapture", "onGenerate">>}
  /\ \A call \in inflight : call.frame # NoFrame /\ call.frame = call.sid

\* GENERATING with the frame the countdown of this session captured
GeneratingWithFrame ==
  /\ appState = "GENERATING"
  /\ capturedImage = session
  /\ cbLog[session] = <<"onCapture", "onGenerate">>

\* C10: while a countdown runs, or a frame is held with its generation call
\* outstanding, the capture control is not available; at most one countdown
\* interval is active and the active session has at most one call outstanding.
RECURSIVE SumIntervals(_)
SumIntervals(n) == IF n = 0 THEN 0 ELSE interval[n] + SumIntervals(n - 1)

SingleOutstanding ==
  /\ \A i \in Instances :
       (countdown[i] > 0 \/ capturedImage # NoFrame) => ~CaptureControl(i)
  /\ SumIntervals(MaxSessions) <= 1
  /\ Cardinality({call \in inflight : call.sid = session}) <= 1

\* --- camera acquisition and the countdown
\* C11: a failed camera acquisition is a reported error: while the page whose
\* getUserMedia failed is on screen, the error HardwareUnavailable is
\* surfaced (and the guest can still go back to LANDING).
CameraFailureReported ==
  \A i \in Instances :
    (track[i] = "failed" /\ Mounted(i))
      => (lastError = "HardwareUnavailable" /\ ENABLED BackPressed)

\* C12: the frame capture produces has exactly the target's pixel size, and
\* the target is 9:16 in portrait and 16:9 in landscape.
FixedTargetAspectRatio ==
  cpc = "drawn" =>
    /\ canvas.width = targetWidth(orientation)
    /\ canvas.height = targetHeight(orientation)
    /\ canvas.width * aspectRatioClass(orientation)[2]
         = canvas.height * aspectRatioClass(orientation)[1]

\* C13: the source rectangle capture draws lies inside the feed, has the
\* ratio of the target, and is centred: a feed wider than the target keeps
\* its full height and loses equal margins left and right, any other feed
\* keeps its full width and loses equal margins top and bottom.
CentredCrop ==
  cpc = "drawn" =>
    LET tw == targetWidth(orientation)
        th == targetHeight(orientation)
        vw == videoWidth * Scale
        vh == videoHeight * Scale
    IN  /\ 0 <= drawn.sourceX
        /\ drawn.sourceX + drawn.sourceWidth <= vw
        /\ 0 <= drawn.sourceY
        /\ drawn.sourceY + drawn.sourceHeight <= vh
        /\ drawn.sourceWidth > 0
        /\ drawn.sourceHeight > 0
        /\ drawn.sourceWidth * th = drawn.sourceHeight * tw
        /\ IF videoWidth * th > videoHeight * tw
             THEN /\ drawn.sourceHeight = vh
                  /\ drawn.sourceY = 0
                  /\ drawn.sourceX = vw - (drawn.sourceX + drawn.sourceWidth)
             ELSE /\ drawn.sourceWidth = vw
                  /\ drawn.sourceX = 0
                  /\ drawn.sourceY = vh - (drawn.sourceY + drawn.sourceHeight)

\* a landscape feed has been drawn on a portrait target with a margin cut
\* on either side
WideFeedCropped ==
  /\ cpc = "drawn"
  /\ isPortrait(orientation)
  /\ videoWidth > videoHeight
  /\ drawn.sourceX > 0
  /\ drawn.sourceWidth < videoWidth * Scale

\* --- the admin page
\* C14 (as stated): a login attempt with a PIN other than settings.adminPin
\* leaves the page unauthenticated and changes no settings, no concepts and
\* nothing in the store; the page becomes authenticated only by a login
\* attempt with the configured PIN; and no save or upload request is sent
\* while the page is unauthenticated.
PinGateBlocksEveryRequest ==
  [][/\ (adminEvent'.step = "login" /\ pin # settings.adminPin)
          => /\ ~isAuthenticated'
             /\ settings' = settings
             /\ conceptObjects' = conceptObjects
             /\ remote' = remote
     /\ (~isAuthenticated /\ isAuthenticated')
          => (adminEvent'.step = "login" /\ pin = settings.adminPin)
     /\ adminEvent'.step = "sent"
          => (appState = "ADMIN" /\ isAuthenticated)]_vars

\* C14 (amended): as above, except that the last part holds for starting a
\* mutating operation: a save request is sent, and an overlay file is taken
\* for upload, only on an authenticated page.  The request of an upload whose
\* file was taken on an authenticated page may be sent later.
PinGate ==
  [][/\ (adminEvent'.step = "login" /\ pin # settings.adminPin)
          => /\ ~isAuthenticated'
             /\ settings' = settings
             /\ conceptObjects' = conceptObjects
             /\ remote' = remote
     /\ (~isAuthenticated /\ isAuthenticated')
          => (adminEvent'.step = "login" /\ pin = settings.adminPin)
     /\ (adminEvent'.step = "sent" /\ adminEvent'.kind # "uploadOverlay")
          => (appState = "ADMIN" /\ isAuthenticated)
     /\ (upload.phase = "none" /\ upload'.phase # "none")
          => (appState = "ADMIN" /\ isAuthenticated)]_vars

\* a wrong PIN was typed and a login attempted with it
WrongPinRejected ==
  /\ appState = "ADMIN"
  /\ adminEvent.step = "login"
  /\ adminEvent.pin \in Pins
  /\ adminEvent.pin # settings.adminPin
  /\ ~adminEvent.ok
  /\ ~isAuthenticated

\* C15: every AdminPage entered from LANDING starts unauthenticated,
\* whatever the page of the previous visit was when that visit ended.
AdminAuthNotPersistent ==
  [][(appState = "LANDING" /\ appState' = "ADMIN") => ~isAuthenticated']_vars

\* ADMIN was entered again after a visit that ended authenticated (by the
\* idle timeout: the authenticated page has no back control)
ReenteredAfterAuthenticatedVisit ==
  /\ appState = "ADMIN"
  /\ adminEvent.step = "mount"
  /\ adminEvent.previous
  /\ ~isAuthenticated

\* C16: when the store rejects a settings or concepts save, or cannot be
\* reached, the admin is shown the failure, localSettings and localConcepts
\* stay as they are, and the process-wide settings and concepts are not
\* updated.
FailedSaveSurfaced ==
  [][(/\ adminEvent'.step = "resolved"
      /\ adminEvent'.kind \in {"saveSettings", "saveConcepts"}
      /\ ~adminEvent'.ok)
       => /\ adminEvent'.alert # "none"
          /\ localSettings' = localSettings
          /\ conceptObjects' = conceptObjects
          /\ settings' = settings]_vars

\* C17: every save and upload request presents the adminPin of the settings
\* that are current when the request is sent.
CurrentPinPresented ==
  adminEvent.step = "sent" => adminEvent.pin = settings.adminPin

\* C18: a countdown shows 3, then 2, then 1 on successive ticks; the tick at
\* 1 clears the interval, makes capture() call onCapture and then onGenerate
\* once, and sets the countdown to null; ticks at 3 and 2 call nothing, and a
\* page has no interval left once its countdown is over.
CountdownRun ==
  /\ [](\A i \in Instances :
          /\ Len(cbLog[i]) <= 2
          /\ interval[i] <= 1
          /\ (countdown[i] = 0 => interval[i] = 0))
  /\ [][\A i \in Instances :
          countdown'[i] # countdown[i] =>
            \/ /\ countdown[i] = 0
               /\ countdown'[i] = CountdownFrom
               /\ cbLog'[i] = cbLog[i]
            \/ /\ countdown[i] \in {2, 3}
               /\ countdown'[i] = countdown[i] - 1
               /\ interval'[i] = interval[i]
               /\ cbLog'[i] = cbLog[i]
            \/ /\ countdown[i] = 1
               /\ countdown'[i] = 0
               /\ interval'[i] = 0
               /\ cbLog[i] = <<>>
               /\ cbLog'[i] = <<"onCapture", "onGenerate">>]_vars

\* a countdown has run to its end and captured
CountdownCompleted ==
  \E i \in Instances :
    /\ countdown[i] = 0
    /\ interval[i] = 0
    /\ cbLog[i] = <<"onCapture", "onGenerate">>

\* C19: capture() hands a frame to onCapture and calls onGenerate only while
\* the stream of its page has been acquired and is live.
CaptureOnlyWithLiveFeed ==
  [][\A i \in Instances : cbLog'[i] # cbLog[i] => track[i] = "live"]_vars

\* C20: when an overlay upload succeeds, localSettings becomes the
\* localSettings of that moment with only overlayImage replaced: edits made
\* to other fields while the upload was under way are kept.
UploadKeepsConcurrentEdits ==
  [][(/\ upload.phase = "sent"
      /\ ~upload.orphan
      /\ adminEvent'.step = "resolved"
      /\ adminEvent'.kind = "uploadOverlay"
      /\ adminEvent'.ok)
       => localSettings' = [localSettings EXCEPT !.overlayImage = OverlayUrl]]_vars

\* C21: an upload that has set isUploading sets it back, however it ends:
\* while the page shows the upload control disabled, an upload of this page
\* is still under way whose handler will enable it again.
UploadFlagReleased ==
  (appState = "ADMIN" /\ isUploading)
    => (upload.phase \in {"reading", "sent"} /\ ~upload.orphan)

\* C22: editing a concept changes the admin's local copy only: the
\* process-wide Concept list changes in no step other than a concepts save
\* that succeeds.
ConceptEditsStayLocal ==
  [][concepts' # concepts
       => /\ adminEvent'.step = "resolved"
          /\ adminEvent'.kind = "saveConcepts"
          /\ adminEvent'.ok]_vars

\* C23 (as stated): the stored base URL changes only when a settings save
\* succeeds, and then to the value of the URL field; a failed save and an
\* edit of the field leave it as it was.
StoredUrlChangesOnSuccessOnly ==
  [][storedUrl' # storedUrl
       => /\ adminEvent'.step = "resolved"
          /\ adminEvent'.kind = "saveSettings"
          /\ adminEvent'.ok
          /\ storedUrl' = gasUrl]_vars

\* C23 (amended): the stored base URL is never changed by an edit of the
\* field or by the outcome of a save; it takes the value of the field when
\* SAVE SETTINGS is pressed, before the request is sent.
StoredUrlChangesOnSaveClick ==
  [][/\ storedUrl' # storedUrl
          => (adminEvent'.step = "sent" /\ adminEvent'.kind = "saveSettings")
     /\ (adminEvent'.step = "sent" /\ adminEvent'.kind = "saveSettings")
          => storedUrl' = gasUrl
     /\ adminEvent'.step \in {"resolved", "edit"}
          => storedUrl' = storedUrl]_vars

\* a settings save has failed and the stored URL is the edited one
FailedSaveKeptEditedUrl ==
  /\ adminEvent.step = "resolved"
  /\ adminEvent.kind = "saveSettings"
  /\ ~adminEvent.ok
  /\ storedUrl = "other-url"
  /\ storedUrl = gasUrl

====
